---- MODULE Spec2Model ----
(***************************************************************************)
(* A model of the ELF emission core of e9patch (e9elf.cpp): parseElf,      *)
(* emitRefactoredPatch, emitLoaderMap and emitElf.                         *)
(*                                                                         *)
(* Memory.  A byte buffer (B->original.bytes, B->patched.bytes) is a       *)
(* function from the file offsets of its non-zero fields to their values;  *)
(* every offset outside the domain reads as zero.  A field is an aligned   *)
(* little-endian integer of an ELF structure (e_entry, p_type, d_tag ...)  *)
(* or one byte of code, keyed by the offset of its first byte.             *)
(*                                                                         *)
(* Integers.  TLC integers have 32 bits.  File offsets and sizes of the    *)
(* (small) files are plain integers.  Virtual addresses, and the three     *)
(* arguments of emitLoaderMap, are two-limb integers <<hi, lo>> standing   *)
(* for hi * 2^20 + lo: wide enough for the 48-bit address space and for    *)
(* the field-width checks of emitLoaderMap (2^43 and 2^44 and 2^33).       *)
(***************************************************************************)
EXTENDS Integers, Sequences, FiniteSets, TLC

VARIABLES
    pc,                 \* position of the program
    err,                \* the error() that ended it, "none" otherwise
    mode,               \* B->mode
    option_loader_static,
    option_loader_base,
    option_loader_phdr,
    option_trap_entry,
    original,           \* B->original.bytes
    data,               \* B->patched.bytes
    size,               \* B->size / B->patched.size, then emitElf's cursor
    Is,                 \* B->Is, the instruction index
    patches,            \* the file offsets the patcher rewrites
    mapping_size,
    info,               \* B->elf: the program headers parseElf recorded
    pic,                \* parseElf's result
    reserved,           \* the address ranges reserve() holds
    offset,             \* emitRefactoredPatch: the page walked (Step #1)
    curr_addr, curr_offset, curr_size,
    last,               \* emitRefactoredPatch: what the last iteration did
    refactors,
    ri,                 \* emitRefactoredPatch: the refactor copied (Step #2)
    size_0,
    input,              \* B->patched.bytes when emitElf is entered
    mappings,
    loader_size,        \* sizeof(e9loader_elf_bin)
    inits,              \* B->inits
    mmap,               \* B->mmap
    config,             \* struct e9_config_s at config_offset
    config_elf,         \* struct e9_config_elf_s
    maps,               \* the two arrays of struct e9_map_s
    ub,
    entry,
    config_offset,
    config_size,
    shim,               \* the entry shim: its bytes and its rel32
    slot,               \* the program header emitElf overwrote
    ret,                \* emitElf's result
    call,               \* emitLoaderMap: the arguments of a call
    map                 \* emitLoaderMap: what the call did

vars == <<pc, err, mode, option_loader_static, option_loader_base,
          option_loader_phdr, option_trap_entry, original, data, size, Is, patches,
          mapping_size, info, pic, reserved, offset, curr_addr, curr_offset, curr_size,
          last, refactors, ri, size_0, input, mappings, loader_size, inits, mmap,
          config, config_elf, maps, ub, entry, config_offset, config_size,
          shim, slot, ret, call, map>>

---------------------------------------------------------------------------
(* Program constants. *)

PAGE_SIZE == 4096

INT32_MAX == 2147483647

INT32_MIN == (-INT32_MAX) - 1

E9_FLAG_EXE == 1

ET_EXEC == 2

ET_DYN == 3

PT_LOAD == 1

PT_DYNAMIC == 2

PT_NOTE == 4

PT_GNU_STACK == 1685382481

PT_GNU_RELRO == 1685382482

PF_X == 1

PF_R == 4

DT_NULL == 0

DT_INIT == 12

---------------------------------------------------------------------------
(* Two-limb integers: <<hi, lo>> is hi * LIMB + lo with 0 <= lo < LIMB. *)

LIMB == 2^20

ToBig(n) == <<n \div LIMB, n % LIMB>>

BigToInt(a) == a[1] * LIMB + a[2]

BigAdd(a, b) ==
    <<a[1] + b[1] + ((a[2] + b[2]) \div LIMB), (a[2] + b[2]) % LIMB>>

BigNeg(a) == IF a[2] = 0 THEN <<-a[1], 0>> ELSE <<-a[1] - 1, LIMB - a[2]>>

BigSub(a, b) == BigAdd(a, BigNeg(b))

BigLt(a, b) == a[1] < b[1] \/ (a[1] = b[1] /\ a[2] < b[2])

BigLe(a, b) == a = b \/ BigLt(a, b)

BigMax(a, b) == IF BigLt(a, b) THEN b ELSE a

BigZero == <<0, 0>>

\* C's a / d for a divisor d of LIMB: the quotient truncated toward zero.
BigDiv(a, d) ==
    LET floor == <<a[1] \div d, (a[1] % d) * (LIMB \div d) + (a[2] \div d)>>
    IN  IF BigLt(a, BigZero) /\ a[2] % d # 0
        THEN BigAdd(floor, <<0, 1>>)
        ELSE floor

\* The least intptr_t of the model's two-limb integers.
INTPTR_MIN == <<INT32_MIN, 0>>

UINT32_MAX == <<4095, LIMB - 1>>

---------------------------------------------------------------------------
(* e9patch.h: the encoding of absolute addresses. *)

ABSOLUTE_ADDRESS_MIN == <<2^29, 0>>

IS_ABSOLUTE(addr) == BigLe(ABSOLUTE_ADDRESS_MIN, addr)

BASE_ADDRESS(addr) ==
    IF IS_ABSOLUTE(addr) THEN BigSub(addr, ABSOLUTE_ADDRESS_MIN) ELSE addr

---------------------------------------------------------------------------
(* emitLoaderMap. *)

\* sizeof(struct e9_map_s)
SIZEOF_MAP == 8

\* The size bound of emitLoaderMap's overflow check, in pages.
MapLenLimit == 2^21

\* The cast of the page count that emitLoaderMap stores into map->size.
MapSizeCast(len) == len[2] % 65536

\* (uint32_t)offset
Uint32Cast(off) == <<off[1] % 4096, off[2]>>

\* TrackUb keeping the latest address instead of the greatest.
TrackUbLatest(ubp, abs, addr) ==
    IF ubp # <<>> /\ ~abs THEN <<addr>> ELSE ubp

\* *ub = std::max(*ub, addr), for a tracked upper bound <<v>>; <<>> is nullptr.
TrackUb(ubp, abs, addr) ==
    IF ubp # <<>> /\ ~abs THEN <<BigMax(ubp[1], addr)>> ELSE ubp

\* The call emitLoaderMap(data, addr, len, offset, r, w, x, ub): the error it
\* raises, the record it writes, the bytes it returns and the new *ub.
emitLoaderMap(addr, len, off, r, w, x, ubp) ==
    LET abs   == IS_ABSOLUTE(addr)
        ub1   == TrackUb(ubp, abs, addr)
        addr1 == BigDiv(BASE_ADDRESS(addr), PAGE_SIZE)
        len1  == BigDiv(len, PAGE_SIZE)
        off1  == BigDiv(off, PAGE_SIZE)
    IN  IF BigLt(addr1, ToBig(INT32_MIN)) \/ BigLt(ToBig(INT32_MAX), addr1)
        THEN [err |-> "OverflowError",
              what |-> IF BigLt(addr1, BigZero) THEN "address underflow"
                                                ELSE "address overflow",
              ub |-> ub1, size |-> 0, rec |-> <<>>]
        ELSE IF BigLe(ToBig(MapLenLimit), len1)
        THEN [err |-> "OverflowError", what |-> "size overflow",
              ub |-> ub1, size |-> 0, rec |-> <<>>]
        ELSE IF BigLt(UINT32_MAX, off1)
        THEN [err |-> "OverflowError", what |-> "offset overflow",
              ub |-> ub1, size |-> 0, rec |-> <<>>]
        ELSE [err |-> "none", what |-> "",
              ub |-> ub1, size |-> SIZEOF_MAP,
              rec |-> <<[addr |-> BigToInt(addr1),
                         offset |-> Uint32Cast(off1),
                         size |-> MapSizeCast(len1),
                         r |-> IF r THEN 1 ELSE 0,
                         w |-> IF w THEN 1 ELSE 0,
                         x |-> IF x THEN 1 ELSE 0,
                         abs |-> IF abs THEN 1 ELSE 0]>>]

---------------------------------------------------------------------------
(* Byte buffers. *)

Rd(buf, o) == IF o \in DOMAIN buf THEN buf[o] ELSE 0

Wr(buf, o, v) ==
    [x \in IF v = 0 THEN (DOMAIN buf) \ {o} ELSE (DOMAIN buf) \cup {o} |->
        IF x = o THEN v ELSE buf[x]]

\* memcpy(dstbuf + dst, srcbuf + src, n), every source byte read before any
\* byte is written.
memcpy(dstbuf, dst, srcbuf, src, n) ==
    LET keep  == {o \in DOMAIN dstbuf : o < dst \/ o >= dst + n}
        moved == {o \in DOMAIN srcbuf : src <= o /\ o < src + n}
    IN  [x \in keep \cup {(o - src) + dst : o \in moved} |->
            IF dst <= x /\ x < dst + n THEN srcbuf[(x - dst) + src]
                                       ELSE dstbuf[x]]

\* memcmp(a + off, b + off, n) == 0
memeq(a, b, off, n) ==
    \A o \in (DOMAIN a) \cup (DOMAIN b) :
        (off <= o /\ o < off + n) => Rd(a, o) = Rd(b, o)

\* size rounded up to the next page boundary.
RoundUp(n) ==
    IF n % PAGE_SIZE = 0 THEN n ELSE n + PAGE_SIZE - (n % PAGE_SIZE)

nullptr == -1

---------------------------------------------------------------------------
(* <elf.h>: the layout of Elf64_Ehdr, Elf64_Phdr and Elf64_Dyn. *)

SIZEOF_EHDR == 64

SIZEOF_PHDR == 56

SIZEOF_DYN == 16

ELFMAG == 1179403647

ELFCLASS64 == 2

ELFDATA2LSB == 1

EV_CURRENT == 1

EM_X86_64 == 62

PN_XNUM == 65535

EI_CLASS == 4

EI_DATA == 5

EI_VERSION == 6

OFF_e_type == 16

OFF_e_machine == 18

OFF_e_entry == 24

OFF_e_phoff == 32

OFF_e_phnum == 56

OFF_p_type == 0

OFF_p_flags == 4

OFF_p_offset == 8

OFF_p_vaddr == 16

OFF_p_paddr == 24

OFF_p_filesz == 32

OFF_p_memsz == 40

OFF_p_align == 48

OFF_d_tag == 0

OFF_d_ptr == 8

PhdrFields ==
    {OFF_p_type, OFF_p_flags, OFF_p_offset, OFF_p_vaddr, OFF_p_paddr,
     OFF_p_filesz, OFF_p_memsz, OFF_p_align}

---------------------------------------------------------------------------
(* reserve(): the address ranges already taken. *)

RELATIVE_ADDRESS_MIN == <<-(2^27), 0>>

Overlaps(r, lo, hi) == BigLt(r[1], hi) /\ BigLt(lo, r[2])

\* reserve(B, lo, hi) succeeds iff [lo, hi) meets no range reserved before.
CanReserve(res, lo, hi) == \A i \in 1..Len(res) : ~Overlaps(res[i], lo, hi)

---------------------------------------------------------------------------
(* Bounds of the model, and the input files it is run on. *)

\* Pages of the input file.
MaxPages == 3

\* Page addresses of instructions: TextBase + 0 .. MaxVPage pages.
MaxVPage == 3

\* Entries of the program header table.
MaxPhdr == 3

\* Entries of the dynamic section.
MaxDyn == 3

\* Trampoline mappings.
MaxMappings == 2

TextBase == 1024 * PAGE_SIZE

\* Where the input files keep the dynamic section and, in every page, code.
DynOff == 8 * SIZEOF_EHDR

CodeOff == PAGE_SIZE \div 2

NOP == 144

JMP == 233

INT3 == 204

DT_FINI == 13

ET_REL == 1

EntryPoint == TextBase + CodeOff

InitPtr(i) == TextBase + 4608 + (16 * i)

RECURSIVE SeqsUpTo(_, _)
\* The sequences over S of length at most n.
SeqsUpTo(S, n) ==
    IF n = 0 THEN {<<>>}
    ELSE LET shorter == SeqsUpTo(S, n - 1)
         IN  shorter \cup {Append(q, x) : q \in shorter, x \in S}

PhdrTypes == {PT_LOAD, PT_DYNAMIC, PT_NOTE, PT_GNU_RELRO, PT_GNU_STACK}

DynTags == {DT_NULL, DT_INIT, DT_FINI}

\* Loader bases above and below the text of the input files.
LoaderBases ==
    {ToBig(262144 * PAGE_SIZE), ToBig(65536 * PAGE_SIZE),
     ToBig(512 * PAGE_SIZE)}

\* A trampoline mapping: the chain of its merged nodes, the head first.  A
\* node's bounds are what getVirtualBounds(node, PAGE_SIZE, bounds) yields.
Node(base, npages, preload, bounds) ==
    [base |-> base, size |-> npages * PAGE_SIZE, offset |-> 0, prot |-> 5,
     preload |-> preload, bounds |-> bounds]

Dense(npages) == <<[lb |-> 0, ub |-> npages * PAGE_SIZE]>>

MappingPool ==
    { <<Node(ToBig(-(16 * PAGE_SIZE)), 1, TRUE, Dense(1))>>,
      <<Node(ToBig(32 * PAGE_SIZE), 2, FALSE,
             <<[lb |-> 0, ub |-> PAGE_SIZE]>>)>>,
      <<Node(ToBig(458752 * PAGE_SIZE), 1, TRUE, Dense(1))>>,
      <<Node(BigAdd(ABSOLUTE_ADDRESS_MIN, ToBig(458752 * PAGE_SIZE)), 1,
             FALSE, Dense(1))>>,
      <<Node(<<2^28, 0>>, 1, TRUE, Dense(1))>>,
      <<Node(ToBig(48 * PAGE_SIZE), 3, TRUE,
             <<[lb |-> 0, ub |-> PAGE_SIZE],
               [lb |-> 2 * PAGE_SIZE, ub |-> 3 * PAGE_SIZE]>>),
        Node(ToBig(64 * PAGE_SIZE), 3, FALSE,
             <<[lb |-> PAGE_SIZE, ub |-> 2 * PAGE_SIZE]>>)>> }

\* The input every family of scenarios varies.
Plain ==
    [hdr |-> "ok", etype |-> ET_DYN, mode |-> "MODE_ELF_EXE",
     pht |-> <<PT_LOAD, PT_DYNAMIC, PT_NOTE>>, lowload |-> FALSE,
     dyn |-> <<DT_FINI, DT_INIT, DT_NULL>>, pad |-> 0, npages |-> 2,
     dirty |-> {1}, vpage |-> [p \in 0..1 |-> p], msize |-> PAGE_SIZE,
     static |-> FALSE, phopt |-> 0, trap |-> FALSE,
     lbase |-> ToBig(262144 * PAGE_SIZE), maps |-> <<>>, inits |-> <<>>,
     mmap |-> INTPTR_MIN, lsize |-> 3000]

Modes == {"MODE_ELF_EXE", "MODE_ELF_DSO"}

\* Patched pages and where their instructions live (the instruction of a
\* page left alone is at vpage 0).
PatchScenarios ==
    UNION { { [Plain EXCEPT !.npages = MaxPages, !.dirty = d,
                            !.vpage = [p \in 0..(MaxPages - 1) |->
                                          IF p \in d THEN v[p] ELSE 0],
                            !.msize = ms, !.etype = ET_EXEC] :
                v \in [d -> 0..MaxVPage],
                ms \in {PAGE_SIZE, 2 * PAGE_SIZE} } :
            d \in SUBSET (0..(MaxPages - 1)) }

\* Program header tables and the choice of the header to overwrite.
PhdrScenarios ==
    { [Plain EXCEPT !.pht = t, !.phopt = o, !.dirty = {0}] :
        t \in SeqsUpTo(PhdrTypes \ {PT_LOAD}, MaxPhdr),
        o \in {0, PT_NOTE, PT_GNU_RELRO, PT_GNU_STACK} }

\* Dynamic sections, with and without a PT_DYNAMIC header.
DynScenarios ==
    { [Plain EXCEPT !.dyn = t, !.mode = m, !.static = st, !.pht = ph,
                    !.dirty = {0, 1}] :
        t \in SeqsUpTo(DynTags, MaxDyn), m \in Modes, st \in BOOLEAN,
        ph \in {<<PT_LOAD, PT_DYNAMIC, PT_NOTE>>, <<PT_LOAD, PT_NOTE>>} }

\* ELF types and modes, good and malformed headers.
HeaderScenarios ==
    { [Plain EXCEPT !.hdr = h, !.mode = m, !.etype = e, !.pad = pd,
                    !.lowload = lo] :
        h \in {"ok", "small", "magic", "class", "data", "version",
               "machine", "phoff_low", "phoff_high", "phnum", "dynamic"},
        m \in Modes, e \in {ET_EXEC, ET_DYN, ET_REL}, pd \in {0, 100},
        lo \in BOOLEAN }

\* Trampoline mappings.
MappingScenarios ==
    { [Plain EXCEPT !.maps = ms, !.lbase = lb] :
        ms \in SeqsUpTo(MappingPool, MaxMappings), lb \in LoaderBases }

\* Init functions, the mmap hint, the size of the loader and the trap.
LoaderScenarios ==
    { [Plain EXCEPT !.inits = it[1], !.mmap = it[2], !.lsize = ls,
                    !.mode = m, !.trap = tr, !.maps = ms] :
        it \in {<<(<<>>), INTPTR_MIN>>,
                <<(<<TextBase + 16>>), ToBig(TextBase + 32)>>},
        ls \in {3000, 4000, 4005}, m \in Modes, tr \in BOOLEAN,
        ms \in SeqsUpTo({<<Node(ToBig(-(16 * PAGE_SIZE)), 1, TRUE,
                                Dense(1))>>}, 1) }

Scenarios ==
    PatchScenarios \cup PhdrScenarios \cup DynScenarios
        \cup HeaderScenarios \cup MappingScenarios \cup LoaderScenarios

\* The fields of program header i of a scenario's file.
PhdrCells(sc, i) ==
    LET t   == sc.pht[i + 1]
        at  == SIZEOF_EHDR + (i * SIZEOF_PHDR)
        fsz == sc.npages * PAGE_SIZE
    IN  {<<at + OFF_p_type, t>>, <<at + OFF_p_align, 8>>}
        \cup
        (CASE t = PT_LOAD ->
               {<<at + OFF_p_flags, PF_R + PF_X>>,
                <<at + OFF_p_vaddr,
                  (IF sc.lowload THEN PAGE_SIZE ELSE TextBase)
                     + (i * 256 * PAGE_SIZE)>>,
                <<at + OFF_p_filesz, fsz>>, <<at + OFF_p_memsz, fsz>>}
           [] t = PT_DYNAMIC ->
               {<<at + OFF_p_flags, PF_R>>, <<at + OFF_p_offset, DynOff>>,
                <<at + OFF_p_vaddr, TextBase + DynOff>>,
                <<at + OFF_p_paddr, TextBase + DynOff>>,
                <<at + OFF_p_filesz, SIZEOF_DYN * Len(sc.dyn)>>,
                <<at + OFF_p_memsz,
                  IF sc.hdr = "dynamic" THEN 2 * fsz
                                        ELSE SIZEOF_DYN * Len(sc.dyn)>>}
           [] OTHER ->
               {<<at + OFF_p_flags, PF_R>>, <<at + OFF_p_offset, 768 + i>>,
                <<at + OFF_p_vaddr, TextBase + 768 + i>>,
                <<at + OFF_p_paddr, TextBase + 768 + i>>,
                <<at + OFF_p_filesz, 32>>, <<at + OFF_p_memsz, 32>>})

\* The fields of a scenario's file: <<offset, value>>.
FileCells(sc) ==
    {<<0, IF sc.hdr = "magic" THEN ELFMAG - 1 ELSE ELFMAG>>,
     <<EI_CLASS, IF sc.hdr = "class" THEN 1 ELSE ELFCLASS64>>,
     <<EI_DATA, IF sc.hdr = "data" THEN 2 ELSE ELFDATA2LSB>>,
     <<EI_VERSION, IF sc.hdr = "version" THEN 0 ELSE EV_CURRENT>>,
     <<OFF_e_type, sc.etype>>,
     <<OFF_e_machine, IF sc.hdr = "machine" THEN 3 ELSE EM_X86_64>>,
     <<OFF_e_entry, EntryPoint>>,
     <<OFF_e_phoff, CASE sc.hdr = "phoff_low" -> 32
                      [] sc.hdr = "phoff_high" -> sc.npages * PAGE_SIZE
                      [] OTHER -> SIZEOF_EHDR>>,
     <<OFF_e_phnum, IF sc.hdr = "phnum" THEN 1000 ELSE Len(sc.pht)>>}
    \cup UNION {PhdrCells(sc, i) : i \in 0..(Len(sc.pht) - 1)}
    \cup {<<DynOff + (SIZEOF_DYN * (i - 1)) + OFF_d_tag, sc.dyn[i]>> :
             i \in 1..Len(sc.dyn)}
    \cup {<<DynOff + (SIZEOF_DYN * (i - 1)) + OFF_d_ptr, InitPtr(i)>> :
             i \in 1..Len(sc.dyn)}
    \cup {<<(p * PAGE_SIZE) + CodeOff, NOP>> : p \in 0..(sc.npages - 1)}

FileSize(sc) ==
    IF sc.hdr = "small" THEN 32 ELSE (sc.npages * PAGE_SIZE) - sc.pad

FileOf(sc) ==
    LET cells == {c \in FileCells(sc) : c[2] # 0 /\ c[1] < FileSize(sc)}
    IN  [o \in {c[1] : c \in cells} |->
            (CHOOSE c \in cells : c[1] = o)[2]]

\* struct Instr: one instruction in the code of every page.
InstrsOf(sc) ==
    { [addr |-> ToBig(TextBase + (sc.vpage[p] * PAGE_SIZE) + CodeOff),
       offset |-> (p * PAGE_SIZE) + CodeOff] : p \in 0..(sc.npages - 1) }

ZeroConfig ==
    [magic |-> "", flags |-> 0, size |-> 0, base |-> BigZero, entry |-> 0,
     mmap |-> 0, num_maps |-> <<0, 0>>, maps |-> <<0, 0>>,
     num_inits |-> 0, inits |-> 0]

NoInfo ==
    [phdr_note |-> nullptr, phdr_gnu_relro |-> nullptr,
     phdr_gnu_stack |-> nullptr, phdr_dynamic |-> nullptr]

NoCall ==
    [addr |-> BigZero, len |-> BigZero, offset |-> BigZero, r |-> FALSE,
     w |-> FALSE, x |-> FALSE, ub |-> <<>>]

NoShim == [bytes |-> <<>>, rel32 |-> 0]

NoMap == [err |-> "none", what |-> "", ub |-> <<>>, size |-> 0, rec |-> <<>>]

\* What no input decides: the locals of emitElf before they are set.
Locals ==
    /\ err = "none"
    /\ info = NoInfo /\ pic = FALSE /\ reserved = <<>>
    /\ offset = 0 /\ curr_addr = INTPTR_MIN /\ curr_offset = -1
    /\ curr_size = 0 /\ last = "none" /\ refactors = <<>> /\ ri = 0
    /\ size_0 = 0 /\ input = <<>>
    /\ config = ZeroConfig /\ config_elf = [dynamic |-> 0]
    /\ maps = <<<<>>, <<>>>> /\ ub = INTPTR_MIN /\ entry = BigZero
    /\ config_offset = 0 /\ config_size = 0 /\ shim = NoShim
    /\ slot = nullptr /\ ret = 0

\* A Binary as the upstream parser creates it: both buffers hold the file.
Init ==
    \E sc \in Scenarios :
        /\ pc = "parseElf"
        /\ mode = sc.mode
        /\ option_loader_static = sc.static
        /\ option_loader_base = sc.lbase
        /\ option_loader_phdr = sc.phopt
        /\ option_trap_entry = sc.trap
        /\ original = FileOf(sc)
        /\ data = FileOf(sc)
        /\ size = FileSize(sc)
        /\ Is = InstrsOf(sc)
        /\ patches = {(p * PAGE_SIZE) + CodeOff : p \in sc.dirty}
        /\ mapping_size = sc.msize
        /\ mappings = sc.maps
        /\ loader_size = sc.lsize
        /\ inits = sc.inits
        /\ mmap = sc.mmap
        /\ call = NoCall /\ map = NoMap
        /\ Locals

---------------------------------------------------------------------------
(* parseElf. *)

\* parseElf's loop over the program headers from header i on: the headers
\* it records, the ranges it reserves and whether a reserve() failed.
RECURSIVE ScanPhdrs(_, _, _, _, _)
ScanPhdrs(bytes, phoff, i, phnum, acc) ==
    IF i >= phnum \/ acc.err # "none" THEN acc
    ELSE
        LET phdr   == phoff + (i * SIZEOF_PHDR)
            p_type == Rd(bytes, phdr + OFF_p_type)
            vstart == ToBig(Rd(bytes, phdr + OFF_p_vaddr))
            vend   == BigAdd(vstart, ToBig(Rd(bytes, phdr + OFF_p_memsz)))
            next   ==
                CASE p_type = PT_LOAD ->
                       IF CanReserve(acc.reserved, vstart, vend)
                       THEN [acc EXCEPT !.reserved =
                                Append(@, <<vstart, vend>>)]
                       ELSE [acc EXCEPT !.err = "ReservationConflict"]
                  [] p_type = PT_DYNAMIC ->
                       [acc EXCEPT !.info.phdr_dynamic = phdr]
                  [] p_type = PT_NOTE ->
                       [acc EXCEPT !.info.phdr_note = phdr]
                  [] p_type = PT_GNU_RELRO ->
                       [acc EXCEPT !.info.phdr_gnu_relro = phdr]
                  [] p_type = PT_GNU_STACK ->
                       [acc EXCEPT !.info.phdr_gnu_stack = phdr]
                  [] OTHER -> acc
        IN  ScanPhdrs(bytes, phoff, i + 1, phnum, next)

\* RejectsType refusing every disagreement of type and mode, a
\* position-independent executable included.
RejectsTypeMismatch(e_type, m) ==
    \/ e_type = ET_EXEC /\ m = "MODE_ELF_DSO"
    \/ e_type = ET_DYN /\ m = "MODE_ELF_EXE"
    \/ e_type \notin {ET_EXEC, ET_DYN}

\* The ELF types parseElf rejects for a mode.
RejectsType(e_type, m) ==
    \/ e_type = ET_EXEC /\ m = "MODE_ELF_DSO"
    \/ e_type \notin {ET_EXEC, ET_DYN}

\* parseElf(B): the error it ends with, else pic, B->elf and the ranges
\* reserved.
parseElf(bytes, sz, m) ==
    LET e_type  == Rd(bytes, OFF_e_type)
        e_phoff == Rd(bytes, OFF_e_phoff)
        e_phnum == Rd(bytes, OFF_e_phnum)
        bad     == [err |-> "MalformedInput", pic |-> FALSE,
                    info |-> NoInfo, reserved |-> <<>>]
        pie     == e_type = ET_DYN /\ m = "MODE_ELF_EXE"
        low     == IF e_type = ET_EXEC
                   THEN <<(<<BigZero, ToBig(65536)>>)>> ELSE <<>>
        neg     == IF pie THEN low
                   ELSE Append(low, <<RELATIVE_ADDRESS_MIN, BigZero>>)
        scan    == ScanPhdrs(bytes, e_phoff, 0, e_phnum,
                             [err |-> "none", pic |-> e_type = ET_DYN,
                              info |-> NoInfo, reserved |-> neg])
        dyn     == scan.info.phdr_dynamic
    IN  IF \/ sz < SIZEOF_EHDR
           \/ Rd(bytes, 0) # ELFMAG
           \/ Rd(bytes, EI_CLASS) # ELFCLASS64
           \/ Rd(bytes, EI_DATA) # ELFDATA2LSB
           \/ Rd(bytes, EI_VERSION) # EV_CURRENT
           \/ Rd(bytes, OFF_e_machine) # EM_X86_64
           \/ e_phoff < SIZEOF_EHDR \/ e_phoff >= sz
           \/ e_phnum > PN_XNUM
           \/ e_phoff + (e_phnum * SIZEOF_PHDR) > sz
           \/ RejectsType(e_type, m)
        THEN bad
        ELSE IF scan.err # "none" THEN scan
        ELSE IF dyn # nullptr /\
                Rd(bytes, dyn + OFF_p_offset) + Rd(bytes, dyn + OFF_p_memsz)
                    > sz
        THEN bad
        ELSE scan

emitVars ==
    <<offset, curr_addr, curr_offset, curr_size, last, refactors, ri, size_0,
      input, config, config_elf, maps, ub, entry, config_offset,
      config_size, shim, slot, ret>>

inputVars ==
    <<mode, option_loader_static, option_loader_base, option_loader_phdr,
      option_trap_entry, original, Is, mapping_size, loader_size, inits,
      mmap, call, map>>

ParseElf ==
    /\ pc = "parseElf"
    /\ LET r == parseElf(data, size, mode)
       IN  /\ err' = r.err
           /\ pc' = IF r.err = "none" THEN "patch" ELSE "error"
           /\ pic' = r.pic
           /\ info' = r.info
           /\ reserved' = r.reserved
    /\ UNCHANGED <<data, size, patches, mappings, emitVars, inputVars>>

\* The patcher (upstream): it rewrites the instructions it was asked to.
Patch ==
    /\ pc = "patch"
    /\ data' = [o \in (DOMAIN data) \cup patches |->
                   IF o \in patches THEN JMP ELSE data[o]]
    /\ pc' = "emitElf"
    /\ UNCHANGED <<err, size, patches, mappings, info, pic, reserved,
                   emitVars, inputVars>>

---------------------------------------------------------------------------
(* emitRefactoredPatch. *)

\* struct Refactor, as its constructor leaves it.
Refactor(addr, off, sz) ==
    [addr |-> addr, size |-> sz, original |-> off, patched |-> 0]

\* Is.lower_bound(off): the instructions at file offset off or later, the
\* first of them if there is any.
AtOrAfter(off) == {I \in Is : I.offset >= off}

lower_bound(off) ==
    CHOOSE I \in AtOrAfter(off) : \A J \in AtOrAfter(off) : I.offset <= J.offset

\* addr - (addr % PAGE_SIZE), the remainder being C's.
PageAddr(addr) ==
    LET down == <<addr[1], addr[2] - (addr[2] % PAGE_SIZE)>>
    IN  IF BigLt(addr, BigZero) /\ addr[2] % PAGE_SIZE # 0
        THEN BigAdd(down, ToBig(PAGE_SIZE))
        ELSE down

\* StartsCluster with the page one mapping size past the end of the
\* cluster left out of it.
StartsClusterStrict(c_addr, c_size, m_size, page_addr) ==
    \/ BigLt(c_addr, BigZero)
    \/ BigLt(page_addr, c_addr)
    \/ BigLe(BigAdd(c_addr, ToBig(c_size + m_size)), page_addr)

\* The test of Step #1 that ends the current cluster at a dirty page.
StartsCluster(c_addr, c_size, m_size, page_addr) ==
    \/ BigLt(c_addr, BigZero)
    \/ BigLt(page_addr, c_addr)
    \/ BigLt(BigAdd(c_addr, ToBig(c_size + m_size)), page_addr)

\* curr_size after the page at page_addr is merged into the cluster.
MergedSize(c_addr, c_size, page_addr) ==
    c_size + BigToInt(BigSub(BigAdd(page_addr, ToBig(PAGE_SIZE)),
                             BigAdd(c_addr, ToBig(c_size))))

\* The refactor list after the current cluster, if there is one, is pushed.
Flush(rs, c_addr, c_offset, c_size) ==
    IF BigLe(BigZero, c_addr)
    THEN Append(rs, Refactor(c_addr, c_offset, c_size))
    ELSE rs

restVars ==
    <<mappings, info, pic, reserved, patches, config, config_elf, maps, ub,
      entry, config_offset, config_size, shim, slot, ret, inputVars>>

\* emitElf, Step (1), and the entry of emitRefactoredPatch.
EmitBegin ==
    /\ pc = "emitElf"
    /\ size' = RoundUp(size)
    /\ input' = data
    /\ size_0' = RoundUp(size)
    /\ pc' = IF option_loader_static THEN "mappings" ELSE "scan"
    /\ UNCHANGED <<err, data, offset, curr_addr, curr_offset, curr_size,
                   last, refactors, ri, restVars>>

\* One iteration of the loop of Step #1.
ScanPage ==
    /\ pc = "scan"
    /\ offset < size
    /\ offset' = offset + PAGE_SIZE
    /\ IF memeq(original, data, offset, PAGE_SIZE)
       THEN /\ last' = "clean"
            /\ UNCHANGED <<pc, err, curr_addr, curr_offset, curr_size,
                           refactors>>
       ELSE IF AtOrAfter(offset) = {}
       THEN /\ pc' = "error" /\ err' = "AssertionFailed" /\ last' = "abort"
            /\ UNCHANGED <<curr_addr, curr_offset, curr_size, refactors>>
       ELSE
         LET I           == lower_bound(offset)
             page_addr   == PageAddr(I.addr)
             page_offset == I.offset - (I.offset % PAGE_SIZE)
         IN  IF page_offset # offset
             THEN /\ pc' = "error" /\ err' = "AssertionFailed"
                  /\ last' = "abort"
                  /\ UNCHANGED <<curr_addr, curr_offset, curr_size,
                                 refactors>>
             ELSE IF StartsCluster(curr_addr, curr_size, mapping_size,
                                   page_addr)
             THEN /\ refactors' =
                        Flush(refactors, curr_addr, curr_offset, curr_size)
                  /\ curr_addr' = page_addr
                  /\ curr_offset' = page_offset
                  /\ curr_size' = PAGE_SIZE
                  /\ last' = "start"
                  /\ UNCHANGED <<pc, err>>
             ELSE /\ curr_size' = MergedSize(curr_addr, curr_size, page_addr)
                  /\ last' = "merge"
                  /\ UNCHANGED <<pc, err, curr_addr, curr_offset, refactors>>
    /\ UNCHANGED <<data, size, ri, size_0, input, restVars>>

\* The end of Step #1: the last cluster is pushed.
ScanEnd ==
    /\ pc = "scan"
    /\ offset >= size
    /\ refactors' = Flush(refactors, curr_addr, curr_offset, curr_size)
    /\ ri' = 1
    /\ last' = "flush"
    /\ pc' = IF refactors' = <<>> THEN "mappings" ELSE "copy"
    /\ UNCHANGED <<err, data, size, offset, curr_addr, curr_offset,
                   curr_size, size_0, input, restVars>>

\* What an out-of-bounds memcpy may do.
UBOutcomes == {"crash", "zero", "garbage"}

GARBAGE == 255

\* The two memcpy of Step #2 for refactor r, appended at file offset at.
CopyOut(bytes, r, at) == memcpy(bytes, at, bytes, r.original, r.size)

\* Restore running one page past the end of the refactor.
RestoreWide(bytes, r) ==
    memcpy(bytes, r.original, original, r.original, r.size + PAGE_SIZE)

Restore(bytes, r) == memcpy(bytes, r.original, original, r.original, r.size)

\* The code bytes of the destinations whose sources lie outside the
\* original buffer (restore) or inside the destination (copy).
Clobbered(r, at) ==
    LET code == {r.original + (k * PAGE_SIZE) + CodeOff :
                    k \in 0..((r.size \div PAGE_SIZE) - 1)}
    IN  {o \in code : o >= size_0}
        \cup {at + (o - r.original) : o \in {x \in code : x >= at}}

\* One iteration of the loop of Step #2.
CopyRefactor ==
    /\ pc = "copy"
    /\ ri <= Len(refactors)
    /\ LET r    == refactors[ri]
           done == Restore(CopyOut(data, r, size), r)
           junk == Clobbered(r, size)
       IN  \E u \in UBOutcomes :
             /\ (r.original + r.size <= size_0) => u = "zero"
             /\ IF u = "crash"
                THEN /\ pc' = "error" /\ err' = "Crash"
                     /\ UNCHANGED <<data, size, ri, refactors>>
                ELSE /\ data' = IF u = "zero" THEN done
                                ELSE [o \in (DOMAIN done) \cup junk |->
                                        IF o \in junk THEN GARBAGE
                                                      ELSE done[o]]
                     /\ refactors' = [refactors EXCEPT ![ri].patched = size]
                     /\ size' = size + r.size
                     /\ ri' = ri + 1
                     /\ pc' = IF ri = Len(refactors) THEN "mappings"
                                                     ELSE "copy"
                     /\ err' = err
    /\ UNCHANGED <<offset, curr_addr, curr_offset, curr_size, last, size_0,
                   input, restVars>>

---------------------------------------------------------------------------
(* emitElf. *)

\* sizeof(struct e9_config_s), sizeof(struct e9_config_elf_s), sizeof(intptr_t)
SIZEOF_CONFIG == 72

SIZEOF_CONFIG_ELF == 8

SIZEOF_INTPTR == 8

PROT_READ == 1

PROT_WRITE == 2

PROT_EXEC == 4

\* (prot & bit) != 0
HasProt(prot, bit) == (prot \div bit) % 2 = 1

\* Several fields written at once: cells are <<offset, value>>.
WrAll(buf, cells) ==
    LET offs == {c[1] : c \in cells}
        nz   == {c[1] : c \in {d \in cells : d[2] # 0}}
    IN  [x \in ((DOMAIN buf) \ offs) \cup nz |->
            IF x \in nz THEN (CHOOSE c \in cells : c[1] = x)[2] ELSE buf[x]]

\* flattenMapping(B, data + at, mapping, 0xcc): the image of a mapping,
\* its holes filled with int3.
flattenMapping(bytes, at, mapping) ==
    WrAll(bytes, {<<at + (k * PAGE_SIZE), INT3>> :
                    k \in 0..((mapping[1].size \div PAGE_SIZE) - 1)})

RECURSIVE EmitBlobs(_, _, _, _)
\* Step (3) from mapping k on: the mappings given their offsets, the bytes
\* and the cursor.
EmitBlobs(ms, k, bytes, sz) ==
    IF k > Len(ms) THEN [mappings |-> ms, data |-> bytes, size |-> sz]
    ELSE EmitBlobs([ms EXCEPT ![k][1].offset = sz], k + 1,
                   flattenMapping(bytes, sz, ms[k]), sz + ms[k][1].size)

flowVars ==
    <<offset, curr_addr, curr_offset, curr_size, last, refactors, ri,
      size_0, input, info, pic, reserved, patches, inputVars>>

\* Step (3): emit all mappings.
EmitMappings ==
    /\ pc = "mappings"
    /\ LET r == EmitBlobs(mappings, 1, data, size)
       IN  /\ mappings' = r.mappings
           /\ data' = r.data
           /\ size' = r.size
    /\ pc' = "config"
    /\ UNCHANGED <<err, config, config_elf, maps, ub, entry, config_offset,
                   config_size, shim, slot, ret, flowVars>>

\* Step (4), to the table of init functions.
EmitConfig ==
    /\ pc = "config"
    /\ LET at   == RoundUp(size)
           tabl == at + SIZEOF_CONFIG + SIZEOF_CONFIG_ELF
       IN  /\ config_offset' = at
           /\ config' = [config EXCEPT
                           !.magic = "E9PATCH",
                           !.base = option_loader_base,
                           !.mmap = IF mmap # INTPTR_MIN THEN mmap ELSE @,
                           !.inits = tabl - at,
                           !.num_inits = @ + Len(inits)]
           /\ size' = tabl + (SIZEOF_INTPTR * Len(inits))
    /\ pc' = "maps"
    /\ UNCHANGED <<err, data, mappings, config_elf, maps, ub, entry,
                   config_size, shim, slot, ret, flowVars>>

\* The calls of emitLoaderMap for the bounds of one node of a chain.
NodeCalls(node, offset_0) ==
    [j \in 1..Len(node.bounds) |->
        [addr |-> BigAdd(node.base, ToBig(node.bounds[j].lb)),
         len |-> ToBig(node.bounds[j].ub - node.bounds[j].lb),
         offset |-> ToBig(offset_0 + node.bounds[j].lb),
         r |-> HasProt(node.prot, PROT_READ),
         w |-> HasProt(node.prot, PROT_WRITE),
         x |-> HasProt(node.prot, PROT_EXEC)]]

\* InPass deciding by the flag of the head of the chain.
InPassHead(chain, n, preload) == chain[1].preload = preload

\* Whether the pass for preload emits the records of a node.
InPass(chain, n, preload) == chain[n].preload = preload

RECURSIVE ChainCalls(_, _, _)
\* The calls for a mapping from node n of its chain on.
ChainCalls(chain, n, preload) ==
    IF n > Len(chain) THEN <<>>
    ELSE (IF InPass(chain, n, preload)
          THEN NodeCalls(chain[n], chain[1].offset) ELSE <<>>)
         \o ChainCalls(chain, n + 1, preload)

RECURSIVE PassCalls(_, _, _)
\* The calls of one pass over the mapping set from mapping k on.
PassCalls(ms, k, preload) ==
    IF k > Len(ms) THEN <<>>
    ELSE ChainCalls(ms[k], 1, preload) \o PassCalls(ms, k + 1, preload)

RECURSIVE EmitCalls(_, _, _)
\* The calls cs made in order from call k on, until one fails.
EmitCalls(cs, k, acc) ==
    IF k > Len(cs) \/ acc.err # "none" THEN acc
    ELSE LET c == cs[k]
             m == emitLoaderMap(c.addr, c.len, c.offset, c.r, c.w, c.x,
                                acc.ub)
         IN  EmitCalls(cs, k + 1,
                       [err |-> m.err, what |-> m.what, ub |-> m.ub,
                        recs |-> acc.recs \o m.rec])

\* The test that follows the trampoline mappings.
BaseTooLow(upper, base) == BigLt(base, upper)

\* Step (4): the two arrays of trampoline mappings and the check of ub.
EmitTrampolineMaps ==
    /\ pc = "maps"
    /\ LET pre  == EmitCalls(PassCalls(mappings, 1, TRUE), 1,
                     [err |-> "none", what |-> "", ub |-> <<INTPTR_MIN>>,
                      recs |-> <<>>])
           post == EmitCalls(PassCalls(mappings, 1, FALSE), 1,
                     [pre EXCEPT !.recs = <<>>])
           at0  == size
           at1  == at0 + (SIZEOF_MAP * Len(pre.recs))
       IN  /\ maps' = <<pre.recs, post.recs>>
           /\ ub' = post.ub[1]
           /\ config' = [config EXCEPT
                           !.maps = <<at0 - config_offset,
                                      at1 - config_offset>>,
                           !.num_maps = <<@[1] + Len(pre.recs),
                                          @[2] + Len(post.recs)>>]
           /\ size' = at1 + (SIZEOF_MAP * Len(post.recs))
           /\ IF post.err # "none"
              THEN pc' = "error" /\ err' = post.err
              ELSE IF BaseTooLow(post.ub[1], option_loader_base)
              THEN pc' = "error" /\ err' = "LoaderBaseTooLow"
              ELSE pc' = "refmaps" /\ err' = err
    /\ UNCHANGED <<data, mappings, config_elf, entry, config_offset,
                   config_size, shim, slot, ret, flowVars>>

\* The calls of emitLoaderMap for the refactors.
RefactorCalls(rs) ==
    [j \in 1..Len(rs) |->
        [addr |-> rs[j].addr, len |-> ToBig(rs[j].size),
         offset |-> ToBig(rs[j].patched), r |-> TRUE, w |-> FALSE,
         x |-> TRUE]]

\* Step (4): the mappings of the refactors.
EmitRefactorMaps ==
    /\ pc = "refmaps"
    /\ LET m == EmitCalls(RefactorCalls(refactors), 1,
                  [err |-> "none", what |-> "", ub |-> <<>>, recs |-> <<>>])
       IN  /\ maps' = [maps EXCEPT ![2] = @ \o m.recs]
           /\ config' = [config EXCEPT !.num_maps[2] = @ + Len(m.recs)]
           /\ size' = size + (SIZEOF_MAP * Len(m.recs))
           /\ pc' = IF m.err = "none" THEN "shim" ELSE "error"
           /\ err' = m.err
    /\ UNCHANGED <<data, mappings, config_elf, ub, entry, config_offset,
                   config_size, shim, slot, ret, flowVars>>

\* The rewired entry point: the address of the shim.
ShimAddress(base, sz, coff) == BigAdd(base, ToBig(sz - coff))

\* The prologue of the shim for a mode.
Prologue(m) ==
    IF m = "MODE_ELF_EXE"
    THEN <<72, 139, 60, 36, 72, 141, 116, 36, 8>>
    ELSE <<49, 255, 49, 246>>

\* EndOfLoader padding the file to a page boundary.
EndOfLoaderPadded(at, nshim, nloader) == RoundUp(at + nshim + nloader)

\* What emitElf returns: the cursor after the loader.
EndOfLoader(at, nshim, nloader) == at + nshim + nloader

\* config->size for a payload of n bytes.
ConfigSize(n) == RoundUp(n)

\* Step (4): the entry shim, the loader and config->size.
EmitShim ==
    /\ pc = "shim"
    /\ LET code == (IF option_trap_entry THEN <<INT3>> ELSE <<>>)
                     \o Prologue(mode) \o <<72, 141, 21>>
           end  == EndOfLoader(size, Len(code) + 4, loader_size)
       IN  /\ entry' = ShimAddress(option_loader_base, size, config_offset)
           /\ shim' = [bytes |-> code,
                       rel32 |-> -((size + Len(code) + 4) - config_offset)]
           /\ size' = end
           /\ config_size' = end - config_offset
           /\ config' = [config EXCEPT
                           !.size = ConfigSize(end - config_offset)]
    /\ pc' = "entry"
    /\ UNCHANGED <<err, data, mappings, config_elf, maps, ub, config_offset,
                   slot, ret, flowVars>>

\* flags | bit, for a one-bit mask.
BitOr(flags, bit) == IF (flags \div bit) % 2 = 1 THEN flags ELSE flags + bit

RECURSIVE FindInitPastNull(_, _, _, _)
\* FindInit without the break at DT_NULL.
FindInitPastNull(bytes, dyn, i, num_dynamic) ==
    IF i >= num_dynamic THEN nullptr
    ELSE IF Rd(bytes, dyn + (i * SIZEOF_DYN) + OFF_d_tag) = DT_INIT
    THEN dyn + (i * SIZEOF_DYN)
    ELSE FindInitPastNull(bytes, dyn, i + 1, num_dynamic)

RECURSIVE FindInit(_, _, _, _)
\* The loop of Step (5) over the dynamic section at file offset dyn from
\* entry i on: the offset of the DT_INIT entry it finds, nullptr if none.
FindInit(bytes, dyn, i, num_dynamic) ==
    IF i >= num_dynamic THEN nullptr
    ELSE LET d_tag == Rd(bytes, dyn + (i * SIZEOF_DYN) + OFF_d_tag)
         IN  IF d_tag = DT_NULL THEN nullptr
             ELSE IF d_tag = DT_INIT THEN dyn + (i * SIZEOF_DYN)
             ELSE FindInit(bytes, dyn, i + 1, num_dynamic)

\* Step (5): modify the entry address.
ModifyEntry ==
    /\ pc = "entry"
    /\ LET phdr == info.phdr_dynamic
           dyn  == Rd(data, phdr + OFF_p_offset)
           num  == Rd(data, phdr + OFF_p_memsz) \div SIZEOF_DYN
           init == FindInit(data, dyn, 0, num)
       IN  /\ config_elf' =
                IF phdr # nullptr
                THEN [config_elf EXCEPT
                        !.dynamic = Rd(data, phdr + OFF_p_vaddr)]
                ELSE config_elf
           /\ IF mode = "MODE_ELF_EXE"
              THEN /\ config' = [config EXCEPT
                                   !.entry = Rd(data, OFF_e_entry),
                                   !.flags = BitOr(@, E9_FLAG_EXE)]
                   /\ data' = Wr(data, OFF_e_entry, BigToInt(entry))
                   /\ pc' = "phdr" /\ err' = err
              ELSE IF phdr = nullptr
              THEN /\ pc' = "error" /\ err' = "MissingDynamic"
                   /\ UNCHANGED <<config, data>>
              ELSE IF init = nullptr
              THEN /\ pc' = "error" /\ err' = "MissingInit"
                   /\ UNCHANGED <<config, data>>
              ELSE /\ config' = [config EXCEPT
                                   !.entry = Rd(data, init + OFF_d_ptr)]
                   /\ data' = Wr(data, init + OFF_d_ptr, BigToInt(entry))
                   /\ pc' = "phdr" /\ err' = err
    /\ UNCHANGED <<size, mappings, maps, ub, entry, config_offset,
                   config_size, shim, slot, ret, flowVars>>

\* ChoosePhdr falling back to the other kinds of header whatever the choice.
ChoosePhdrAny(choice, elf) ==
    LET first == CASE choice = PT_GNU_RELRO -> elf.phdr_gnu_relro
                   [] choice = PT_GNU_STACK -> elf.phdr_gnu_stack
                   [] OTHER -> elf.phdr_note
    IN  IF first # nullptr THEN first
        ELSE IF elf.phdr_note # nullptr THEN elf.phdr_note
        ELSE IF elf.phdr_gnu_relro # nullptr THEN elf.phdr_gnu_relro
        ELSE elf.phdr_gnu_stack

\* The program header Step (6) overwrites, nullptr if there is none.
ChoosePhdr(choice, elf) ==
    CASE choice = PT_NOTE -> elf.phdr_note
      [] choice = PT_GNU_RELRO -> elf.phdr_gnu_relro
      [] choice = PT_GNU_STACK -> elf.phdr_gnu_stack
      [] OTHER ->
           IF elf.phdr_note # nullptr THEN elf.phdr_note
           ELSE IF elf.phdr_gnu_relro # nullptr THEN elf.phdr_gnu_relro
           ELSE elf.phdr_gnu_stack

\* The program header that loads the loader: <<field, value>>.
LoaderPhdr(coff, base, csize) ==
    {<<OFF_p_type, PT_LOAD>>, <<OFF_p_flags, PF_X + PF_R>>,
     <<OFF_p_offset, coff>>, <<OFF_p_vaddr, BigToInt(base)>>,
     <<OFF_p_paddr, 0>>, <<OFF_p_filesz, csize>>, <<OFF_p_memsz, csize>>,
     <<OFF_p_align, PAGE_SIZE>>}

\* Step (6): modify the PHDR to load the loader.
ModifyPhdr ==
    /\ pc = "phdr"
    /\ LET phdr == ChoosePhdr(option_loader_phdr, info)
       IN  IF phdr = nullptr
           THEN /\ pc' = "error" /\ err' = "NoInjectionSlot"
                /\ UNCHANGED <<data, slot, ret>>
           ELSE /\ data' = WrAll(data,
                     {<<phdr + c[1], c[2]>> :
                        c \in LoaderPhdr(config_offset, option_loader_base,
                                         config_size)})
                /\ slot' = phdr
                /\ ret' = size
                /\ pc' = "done" /\ err' = err
    /\ UNCHANGED <<size, mappings, config, config_elf, maps, ub, entry,
                   config_offset, config_size, shim, flowVars>>

Next ==
    \/ ParseElf
    \/ Patch
    \/ EmitBegin
    \/ ScanPage
    \/ ScanEnd
    \/ CopyRefactor
    \/ EmitMappings
    \/ EmitConfig
    \/ EmitTrampolineMaps
    \/ EmitRefactorMaps
    \/ EmitShim
    \/ ModifyEntry
    \/ ModifyPhdr

Spec == Init /\ [][Next]_vars

---------------------------------------------------------------------------
(* emitLoaderMap on its own: every call over the edges of its checks. *)

\* n pages as a two-limb byte count, for n up to 2^31.
Pages(n) == <<n \div 256, (n % 256) * PAGE_SIZE>>

MapAddrs ==
    {Pages(0), Pages(1), BigNeg(Pages(1)), Pages(INT32_MAX),
     BigAdd(Pages(INT32_MAX), Pages(1)),
     BigNeg(BigAdd(Pages(INT32_MAX), Pages(1))),
     BigNeg(BigAdd(Pages(INT32_MAX), Pages(2))),
     <<2^28, 0>>, BigAdd(Pages(7), <<0, 100>>),
     BigNeg(BigAdd(Pages(7), <<0, 100>>)),
     ABSOLUTE_ADDRESS_MIN, BigAdd(ABSOLUTE_ADDRESS_MIN, Pages(5))}

MapLens ==
    {Pages(0), Pages(1), Pages(65535), Pages(65536), Pages(65537),
     Pages(2^20 - 1), Pages(2^20), Pages(2^21 - 1), Pages(2^21),
     BigAdd(Pages(3), <<0, 1>>)}

MapOffsets ==
    {Pages(0), Pages(9), BigAdd(Pages(9), <<0, 4095>>), Pages(INT32_MAX),
     BigAdd(Pages(INT32_MAX), Pages(INT32_MAX)),
     BigAdd(Pages(INT32_MAX), BigAdd(Pages(INT32_MAX), Pages(1))),
     BigAdd(Pages(INT32_MAX), BigAdd(Pages(INT32_MAX), Pages(2)))}

MapCalls ==
    { [addr |-> a, len |-> l, offset |-> o, r |-> p[1], w |-> p[2],
       x |-> p[3], ub |-> u] :
        a \in MapAddrs, l \in MapLens, o \in MapOffsets,
        p \in {<<TRUE, FALSE, TRUE>>, <<TRUE, TRUE, FALSE>>},
        u \in {<<>>, <<INTPTR_MIN>>, <<Pages(3)>>} }

InitMap ==
    /\ pc = "emitLoaderMap"
    /\ call \in MapCalls
    /\ map = NoMap
    /\ mode = "MODE_ELF_EXE"
    /\ option_loader_static = FALSE
    /\ option_loader_base = BigZero
    /\ option_loader_phdr = 0
    /\ option_trap_entry = FALSE
    /\ original = <<>> /\ data = <<>> /\ size = 0
    /\ Is = {} /\ patches = {}
    /\ mapping_size = PAGE_SIZE
    /\ mappings = <<>> /\ loader_size = 0 /\ inits = <<>>
    /\ mmap = INTPTR_MIN
    /\ Locals

CallEmitLoaderMap ==
    /\ pc = "emitLoaderMap"
    /\ map' = emitLoaderMap(call.addr, call.len, call.offset, call.r,
                            call.w, call.x, call.ub)
    /\ pc' = "returned"
    /\ UNCHANGED <<err, mode, option_loader_static, option_loader_base,
                   option_loader_phdr, option_trap_entry, original, data,
                   size, Is, patches, mapping_size, info, pic, reserved,
                   mappings, loader_size, inits, mmap, call, emitVars>>

NextMap == CallEmitLoaderMap

SpecMap == InitMap /\ [][NextMap]_vars

---------------------------------------------------------------------------
(* What the properties below speak of. *)

\* emitElf has returned.
Succeeded == pc = "done"

\* The file offsets at which any of the three buffers holds a value.
Cells == (DOMAIN data) \cup (DOMAIN input) \cup (DOMAIN original)

\* o lies in the file range [original, original + size) of some refactor.
InRefactor(o) ==
    \E j \in 1..Len(refactors) :
        refactors[j].original <= o
            /\ o < refactors[j].original + refactors[j].size

\* The program headers of the input file, and the last one of a type.
PhdrAt(i) == Rd(original, OFF_e_phoff) + (i * SIZEOF_PHDR)

PhdrsOf(t) ==
    {i \in 0..(Rd(original, OFF_e_phnum) - 1) :
        Rd(original, PhdrAt(i) + OFF_p_type) = t}

LastPhdr(t) ==
    IF PhdrsOf(t) = {} THEN nullptr
    ELSE PhdrAt(CHOOSE i \in PhdrsOf(t) : \A k \in PhdrsOf(t) : k <= i)

\* The entries of the input file's dynamic section, and those of them that
\* are a DT_INIT with no DT_NULL before it.
DynAt(i) == Rd(original, LastPhdr(PT_DYNAMIC) + OFF_p_offset) + (i * SIZEOF_DYN)

NumDyn == Rd(original, LastPhdr(PT_DYNAMIC) + OFF_p_memsz) \div SIZEOF_DYN

InitEntries ==
    {i \in 0..(NumDyn - 1) :
        /\ Rd(original, DynAt(i) + OFF_d_tag) = DT_INIT
        /\ \A k \in 0..(i - 1) : Rd(original, DynAt(k) + OFF_d_tag) # DT_NULL}

FirstInitEntry == CHOOSE i \in InitEntries : \A k \in InitEntries : i <= k

\* The field that holds the entry point: e_entry, or the d_ptr of DT_INIT.
EntrySlot ==
    IF mode = "MODE_ELF_EXE" THEN OFF_e_entry
    ELSE DynAt(FirstInitEntry) + OFF_d_ptr

\* o lies in the program header that Step (6) overwrote.
InLoaderPhdr(o) == slot <= o /\ o < slot + SIZEOF_PHDR

---------------------------------------------------------------------------
(* C1: original preservation. *)

\* C1 as claimed: after a successful emitElf every offset of the input file
\* outside every refactor's range holds the input byte, whether "input" is
\* read as the original file or as patched_bytes on entry to emitElf.
C1_OriginalPreservation ==
    Succeeded =>
        \A o \in Cells :
            (o < size_0 /\ ~InRefactor(o)) =>
                \/ Rd(data, o) = Rd(original, o)
                \/ Rd(data, o) = Rd(input, o)

\* C1 as amended: after a successful emitElf every offset of the input file
\* outside every refactor's range, outside the rewired entry slot and outside
\* the repurposed program header holds the byte patched_bytes held there on
\* entry to emitElf, which is the original byte wherever nothing was patched.
C1_FramePreserved ==
    Succeeded =>
        \A o \in Cells :
            (o < size_0 /\ ~InRefactor(o) /\ o # EntrySlot
                /\ ~InLoaderPhdr(o)) =>
                /\ Rd(data, o) = Rd(input, o)
                /\ o \notin patches => Rd(data, o) = Rd(original, o)

\* A successful emission with a refactor, a patched page outside every
\* refactor and header fields outside it, all kept, and a rewired entry.
C1_Witness ==
    /\ Succeeded
    /\ refactors # <<>>
    /\ \E o \in patches : ~InRefactor(o) /\ Rd(data, o) = JMP
    /\ \E o \in DOMAIN original :
          o < size_0 /\ ~InRefactor(o) /\ o # EntrySlot /\ ~InLoaderPhdr(o)
    /\ Rd(data, EntrySlot) # Rd(input, EntrySlot)

---------------------------------------------------------------------------
(* C2: refactor round-trip. *)

\* The offsets into refactor r at which the file or its copy holds a value.
OffsetsIn(r) ==
    {o - r.original : o \in {x \in Cells : r.original <= x
                                            /\ x < r.original + r.size}}
    \cup {o - r.patched : o \in {x \in Cells : r.patched <= x
                                               /\ x < r.patched + r.size}}

\* C2 as claimed: after a successful emitElf, for every refactor r the
\* bytes at r.original are the original file's and the bytes at r.patched
\* are the patched bytes that were at r.original before refactoring.
C2_RoundTrip ==
    Succeeded =>
        \A j \in 1..Len(refactors) :
            LET r == refactors[j]
            IN  \A k \in OffsetsIn(r) :
                    /\ Rd(data, r.original + k) = Rd(original, r.original + k)
                    /\ Rd(data, r.patched + k) = Rd(input, r.original + k)

\* The second half of C2 alone, which no rewiring of Steps (5) and (6)
\* touches: the copy of every refactor holds the patched bytes.
C2_PatchedCopy ==
    Succeeded =>
        \A j \in 1..Len(refactors) :
            LET r == refactors[j]
            IN  \A k \in OffsetsIn(r) :
                    Rd(data, r.patched + k) = Rd(input, r.original + k)

---------------------------------------------------------------------------
(* C3: emitLoaderMap and the widths of the record's fields. *)

C3_SizeStored ==
    (pc = "returned" /\ map.err = "none") =>
        ToBig(map.rec[1].size) = BigDiv(call.len, PAGE_SIZE)

---------------------------------------------------------------------------
(* C4: the boundary of refactor clustering. *)

\* Step #1 of emitRefactoredPatch has run to its end.
Planned == last = "flush"

\* The pages that differ from the original, by file offset.
DirtyPages == {o - (o % PAGE_SIZE) : o \in patches}

\* The page address of the instructions of the page at file offset p.
PageAddrOf(p) == PageAddr(lower_bound(p).addr)

\* Exactly two pages are dirty, the later one in the file gap bytes above the
\* earlier one in memory.
TwoDirty(gap) ==
    /\ Cardinality(DirtyPages) = 2
    /\ \E lo \in DirtyPages : \E hi \in DirtyPages :
          lo < hi /\ PageAddrOf(hi) = BigAdd(PageAddrOf(lo), ToBig(gap))

FirstDirty == CHOOSE p \in DirtyPages : \A q \in DirtyPages : p <= q

\* C4 as claimed: two dirty pages at A and A + mapping_size + PAGE_SIZE, in
\* file order, give two refactor entries.
C4_TwoEntries ==
    (Planned /\ TwoDirty(mapping_size + PAGE_SIZE)) => Len(refactors) = 2

\* C4 as amended: two dirty pages at A and A + mapping_size + PAGE_SIZE give
\* one refactor entry at A of size mapping_size + 2 * PAGE_SIZE; at A and
\* A + mapping_size + 2 * PAGE_SIZE they give two entries of one page each;
\* at A and A + mapping_size - PAGE_SIZE one entry of size mapping_size.
C4_Boundary ==
    Planned =>
        /\ TwoDirty(mapping_size + PAGE_SIZE) =>
              /\ Len(refactors) = 1
              /\ refactors[1].size = mapping_size + (2 * PAGE_SIZE)
              /\ refactors[1].addr = PageAddrOf(FirstDirty)
              /\ refactors[1].original = FirstDirty
        /\ TwoDirty(mapping_size + (2 * PAGE_SIZE)) =>
              /\ Len(refactors) = 2
              /\ refactors[1].size = PAGE_SIZE
              /\ refactors[2].size = PAGE_SIZE
        /\ TwoDirty(mapping_size - PAGE_SIZE) =>
              /\ Len(refactors) = 1
              /\ refactors[1].size = mapping_size

\* The planner has met two dirty pages at A and A + mapping_size + PAGE_SIZE
\* and has made one refactor of them.
C4_Witness ==
    Planned /\ TwoDirty(mapping_size + PAGE_SIZE) /\ Len(refactors) = 1

---------------------------------------------------------------------------
(* C5: the mappings and the loader base. *)

\* The record's base, in bytes, is above the loader base.
AboveBase(rec) == BigLt(option_loader_base, Pages(rec.addr))

\* The records of array a (1 or 2) that Step (4) wrote for trampoline
\* mappings: in the second array the records of the refactors follow them.
TrampolineRecs(a) ==
    IF a = 1 \/ pc = "refmaps" THEN maps[a]
    ELSE SubSeq(maps[2], 1, Len(maps[2]) - Len(refactors))

\* C5 as claimed: after a successful emission no record of either array
\* with a non-absolute address, of a trampoline mapping or of a refactor, has
\* a base above the loader base.
C5_NoBaseAboveLoader ==
    Succeeded =>
        \A a \in 1..2 : \A i \in 1..Len(maps[a]) :
            maps[a][i].abs = 0 => ~AboveBase(maps[a][i])

\* C5 as amended: once the trampoline mappings are emitted and checked, no
\* record of a trampoline mapping with a non-absolute address has a base
\* above the loader base, and LoaderBaseTooLow is raised only when one has;
\* the records of the refactors are appended to the second array after the
\* check, whatever their addresses.
C5_TrampolineBases ==
    /\ pc \in {"refmaps", "shim", "entry", "phdr", "done"} =>
          /\ \A a \in 1..2 : \A i \in 1..Len(TrampolineRecs(a)) :
                TrampolineRecs(a)[i].abs = 0
                    => ~AboveBase(TrampolineRecs(a)[i])
          /\ ~BigLt(option_loader_base, ub)
    /\ err = "LoaderBaseTooLow" =>
          \E a \in 1..2 : \E i \in 1..Len(maps[a]) :
              maps[a][i].abs = 0 /\ AboveBase(maps[a][i])
    /\ Succeeded =>
          /\ Len(maps[2]) >= Len(refactors)
          /\ \A j \in 1..Len(refactors) :
                LET rec == maps[2][Len(maps[2]) - Len(refactors) + j]
                IN  /\ ToBig(rec.addr) = BigDiv(refactors[j].addr, PAGE_SIZE)
                    /\ rec.size = refactors[j].size \div PAGE_SIZE
                    /\ rec.abs = 0

\* A successful emission with a checked trampoline record and the record of
\* a refactor whose base is above the loader base.
C5_Witness ==
    /\ Succeeded
    /\ Len(maps[1]) > 0
    /\ refactors # <<>>
    /\ AboveBase(maps[2][Len(maps[2])])

---------------------------------------------------------------------------
(* C6: the size that emitElf returns. *)

\* The bytes of the config region: the config record and its ELF part, the
\* init functions, the records of both arrays, the shim and the loader.
PayloadSize ==
    SIZEOF_CONFIG + SIZEOF_CONFIG_ELF + (SIZEOF_INTPTR * Len(inits))
        + (SIZEOF_MAP * (Len(maps[1]) + Len(maps[2])))
        + Len(shim.bytes) + 4 + loader_size

\* C6 as claimed: the size a successful emitElf returns is a multiple of
\* PAGE_SIZE, the file ending at config_offset + config.size.
C6_SizePageMultiple ==
    Succeeded =>
        /\ ret % PAGE_SIZE = 0
        /\ ret = config_offset + config.size

\* C6 as amended: the size a successful emitElf returns is config_offset
\* plus the bytes of the config region as they are, with no padding; it is
\* config_offset that is a multiple of PAGE_SIZE, and config.size that is the
\* size of the region rounded up to a page.
C6_ReturnedSize ==
    Succeeded =>
        /\ ret = config_offset + PayloadSize
        /\ config_size = PayloadSize
        /\ config_offset % PAGE_SIZE = 0
        /\ config.size = RoundUp(PayloadSize)

\* A successful emission whose returned size is no multiple of PAGE_SIZE.
C6_Witness ==
    Succeeded /\ ret % PAGE_SIZE # 0 /\ config.size > config_size

---------------------------------------------------------------------------
(* C7: the ELF type and the requested mode. *)

\* e_type of the input file.
FileType == Rd(original, OFF_e_type)

\* What parseElf refuses besides the type: a short file, a wrong
\* identification or machine, a program header table or a dynamic section
\* that does not fit the file (size is the file's when parseElf fails).
HeaderDefect ==
    \/ size < SIZEOF_EHDR
    \/ Rd(original, 0) # ELFMAG
    \/ Rd(original, EI_CLASS) # ELFCLASS64
    \/ Rd(original, EI_DATA) # ELFDATA2LSB
    \/ Rd(original, EI_VERSION) # EV_CURRENT
    \/ Rd(original, OFF_e_machine) # EM_X86_64
    \/ Rd(original, OFF_e_phoff) < SIZEOF_EHDR
    \/ Rd(original, OFF_e_phoff) >= size
    \/ Rd(original, OFF_e_phnum) > PN_XNUM
    \/ Rd(original, OFF_e_phoff)
          + (Rd(original, OFF_e_phnum) * SIZEOF_PHDR) > size
    \/ /\ LastPhdr(PT_DYNAMIC) # nullptr
       /\ Rd(original, LastPhdr(PT_DYNAMIC) + OFF_p_offset)
             + Rd(original, LastPhdr(PT_DYNAMIC) + OFF_p_memsz) > size

\* C7 as claimed: parseElf rejects with MalformedInput an ET_EXEC file in
\* DSO mode and an ET_DYN file in executable mode.
C7_TypeModeMismatch ==
    (/\ pc # "parseElf"
     /\ \/ FileType = ET_EXEC /\ mode = "MODE_ELF_DSO"
        \/ FileType = ET_DYN /\ mode = "MODE_ELF_EXE")
        => (pc = "error" /\ err = "MalformedInput")

\* C7 as amended: parseElf rejects with MalformedInput an ET_EXEC file in
\* DSO mode and every file that is neither ET_EXEC nor ET_DYN; an ET_DYN
\* file is accepted in either mode, as position-independent code, and is
\* rejected as malformed only for a defect of its headers.
C7_TypeAndMode ==
    pc # "parseElf" =>
        /\ (FileType = ET_EXEC /\ mode = "MODE_ELF_DSO")
              => (pc = "error" /\ err = "MalformedInput")
        /\ FileType \notin {ET_EXEC, ET_DYN}
              => (pc = "error" /\ err = "MalformedInput")
        /\ (FileType = ET_DYN /\ err = "MalformedInput") => HeaderDefect
        /\ (FileType = ET_DYN /\ err # "MalformedInput"
               /\ err # "ReservationConflict") => pic

\* An ET_DYN file emitted in executable mode.
C7_Witness ==
    Succeeded /\ FileType = ET_DYN /\ mode = "MODE_ELF_EXE" /\ pic

---------------------------------------------------------------------------
(* C8: the rewiring of the entry. *)

\* Step (5) has run without an error.
Rewired == pc \in {"phdr", "done"} \/ err = "NoInjectionSlot"

\* The file offset of the first byte of the shim.
ShimStart == size - loader_size - 4 - Len(shim.bytes)

\* The field at file offset s holds the address of the shim, and
\* config.entry what the field held in the input file.
SlotHolds(s) ==
    /\ Rd(data, s) = BigToInt(entry)
    /\ config.entry = Rd(original, s)

\* C8: after Step (5) config.entry holds the original entry and the slot
\* holds loader base + (start of the shim - config_offset).  In executable
\* mode the slot is e_entry and bit 0 of config.flags is set; in DSO mode it
\* is the d_ptr of the first DT_INIT before the first DT_NULL of PT_DYNAMIC,
\* no other dynamic entry and not e_entry changes, and bit 0 is clear.  DSO
\* emission fails with MissingDynamic without PT_DYNAMIC and with MissingInit
\* without such a DT_INIT.
C8_EntryRewired ==
    /\ Rewired =>
          /\ entry = BigAdd(option_loader_base,
                            ToBig(ShimStart - config_offset))
          /\ mode = "MODE_ELF_EXE" =>
                /\ SlotHolds(OFF_e_entry)
                /\ config.flags % 2 = 1
          /\ mode = "MODE_ELF_DSO" =>
                /\ config.flags % 2 = 0
                /\ LastPhdr(PT_DYNAMIC) # nullptr
                /\ InitEntries # {}
                /\ SlotHolds(DynAt(FirstInitEntry) + OFF_d_ptr)
                /\ Rd(data, OFF_e_entry) = Rd(original, OFF_e_entry)
                /\ \A i \in 0..(NumDyn - 1) :
                      /\ Rd(data, DynAt(i) + OFF_d_tag)
                            = Rd(original, DynAt(i) + OFF_d_tag)
                      /\ i # FirstInitEntry =>
                            Rd(data, DynAt(i) + OFF_d_ptr)
                                = Rd(original, DynAt(i) + OFF_d_ptr)
    /\ err = "MissingDynamic" =>
          mode = "MODE_ELF_DSO" /\ LastPhdr(PT_DYNAMIC) = nullptr
    /\ err = "MissingInit" =>
          /\ mode = "MODE_ELF_DSO"
          /\ LastPhdr(PT_DYNAMIC) # nullptr
          /\ InitEntries = {}

\* A shared object emitted with its DT_INIT, the second entry of its
\* dynamic section, rewired to the shim.
C8_Witness ==
    /\ Succeeded
    /\ mode = "MODE_ELF_DSO"
    /\ FirstInitEntry = 1
    /\ Rd(data, EntrySlot) = BigToInt(entry)
    /\ Rd(data, EntrySlot) # Rd(original, EntrySlot)

---------------------------------------------------------------------------
(* C9: the program header that loads the loader. *)

\* The first of PT_NOTE, PT_GNU_RELRO and PT_GNU_STACK that the input has.
DefaultSlot ==
    IF LastPhdr(PT_NOTE) # nullptr THEN LastPhdr(PT_NOTE)
    ELSE IF LastPhdr(PT_GNU_RELRO) # nullptr THEN LastPhdr(PT_GNU_RELRO)
    ELSE LastPhdr(PT_GNU_STACK)

\* The header that loader_phdr_choice selects.
ChosenSlot ==
    IF option_loader_phdr \in {PT_NOTE, PT_GNU_RELRO, PT_GNU_STACK}
    THEN LastPhdr(option_loader_phdr)
    ELSE DefaultSlot

\* The header at file offset h loads the loader.
LoadsLoader(h) ==
    /\ Rd(data, h + OFF_p_type) = PT_LOAD
    /\ Rd(data, h + OFF_p_flags) = PF_R + PF_X
    /\ Rd(data, h + OFF_p_offset) = config_offset
    /\ Rd(data, h + OFF_p_vaddr) = BigToInt(option_loader_base)
    /\ Rd(data, h + OFF_p_paddr) = 0
    /\ Rd(data, h + OFF_p_filesz) = config_size
    /\ Rd(data, h + OFF_p_memsz) = config_size
    /\ Rd(data, h + OFF_p_align) = PAGE_SIZE

\* Every program header but the one at h is as in the input file.
OthersKept(h) ==
    \A i \in 0..(Rd(original, OFF_e_phnum) - 1) :
        PhdrAt(i) # h =>
            \A f \in PhdrFields :
                Rd(data, PhdrAt(i) + f) = Rd(original, PhdrAt(i) + f)

\* C9 as claimed: for every loader_phdr_choice, NoInjectionSlot is raised
\* only when the input has none of PT_NOTE, PT_GNU_RELRO and PT_GNU_STACK;
\* otherwise exactly one of those headers is overwritten with the loader's
\* segment and every other header is left unchanged.
C9_Repurposing ==
    /\ err = "NoInjectionSlot" =>
          /\ LastPhdr(PT_NOTE) = nullptr
          /\ LastPhdr(PT_GNU_RELRO) = nullptr
          /\ LastPhdr(PT_GNU_STACK) = nullptr
    /\ Succeeded =>
          /\ \E t \in {PT_NOTE, PT_GNU_RELRO, PT_GNU_STACK} :
                \E i \in PhdrsOf(t) : slot = PhdrAt(i)
          /\ LoadsLoader(slot)
          /\ OthersKept(slot)

\* C9 as amended: NoInjectionSlot is raised when the input has no header of
\* the type loader_phdr_choice names (PT_NOTE, PT_GNU_RELRO or PT_GNU_STACK),
\* whatever other headers it has, and for any other choice when it has none
\* of the three; otherwise the last header of the chosen type (by default of
\* the first type present among PT_NOTE, PT_GNU_RELRO, PT_GNU_STACK) is
\* overwritten with the loader's segment and every other header is left
\* unchanged.
C9_ChosenHeader ==
    /\ err = "NoInjectionSlot" => ChosenSlot = nullptr
    /\ Succeeded =>
          /\ ChosenSlot # nullptr
          /\ slot = ChosenSlot
          /\ LoadsLoader(slot)
          /\ OthersKept(slot)

\* NoInjectionSlot raised for a file that has a PT_GNU_STACK header, the
\* choice being another type.
C9_Witness ==
    /\ err = "NoInjectionSlot"
    /\ LastPhdr(PT_GNU_STACK) # nullptr
    /\ option_loader_phdr \in {PT_NOTE, PT_GNU_RELRO}

---------------------------------------------------------------------------
(* C10: the merge rule of the refactor planner. *)

\* What C10 says of one step of Step #1 at a dirty page, and of its end.
C10_Step ==
    /\ (pc = "scan" /\ last' \in {"start", "merge"}) =>
          LET pa   == PageAddrOf(offset)
              near == /\ BigLe(curr_addr, pa)
                      /\ BigLe(pa, BigAdd(curr_addr,
                                          ToBig(curr_size + mapping_size)))
          IN  /\ (last' = "merge") <=> near
              /\ last' = "merge" =>
                    /\ ToBig(curr_size')
                          = BigSub(BigAdd(pa, ToBig(PAGE_SIZE)), curr_addr)
                    /\ curr_size' >= curr_size
                    /\ refactors' = refactors
              /\ last' = "start" =>
                    /\ curr_addr' = pa
                    /\ curr_size' = PAGE_SIZE
                    /\ curr_size > 0 =>
                          refactors' = Append(refactors,
                              Refactor(curr_addr, curr_offset, curr_size))
    /\ (pc = "scan" /\ last' = "flush" /\ curr_size > 0) =>
          refactors' = Append(refactors,
                              Refactor(curr_addr, curr_offset, curr_size))

\* C10 as claimed: a dirty page is merged iff curr_addr <= page_addr <=
\* curr_addr + curr_size + mapping_size, else the cluster is flushed and a
\* cluster of one page starts; a merge leaves curr_size = page_addr +
\* PAGE_SIZE - curr_addr and never decreases curr_size; every cluster
\* started is flushed into the refactor list.
C10_MergeRule == [][C10_Step]_vars

\* The part of C10 that fails: a merge never decreases curr_size.
C10_NeverShrinks ==
    [][(pc = "scan" /\ last' = "merge") => curr_size' >= curr_size]_vars

\* The rest of C10: what C10_Step says, but for the size never decreasing.
C10_Rest ==
    [][(pc = "scan" /\ last' \in {"start", "merge", "flush"}) =>
          (C10_Step \/ (last' = "merge" /\ curr_size' < curr_size
                          /\ ToBig(curr_size')
                               = BigSub(BigAdd(PageAddrOf(offset),
                                               ToBig(PAGE_SIZE)),
                                        curr_addr)))]_vars


---------------------------------------------------------------------------
(* C11: the array each record of a trampoline mapping is placed in. *)

\* The bounds of the nodes of the mapping set: mapping k, node n, bound j.
NodeBounds ==
    UNION { UNION { { <<k, n, j>> : j \in 1..Len(mappings[k][n].bounds) } :
                      n \in 1..Len(mappings[k]) } :
              k \in 1..Len(mappings) }

\* The record of a bound: its base, length and offset in pages, its
\* protection.
RecordOf(t) ==
    LET c == NodeCalls(mappings[t[1]][t[2]], mappings[t[1]][1].offset)[t[3]]
    IN  emitLoaderMap(c.addr, c.len, c.offset, c.r, c.w, c.x, <<>>).rec[1]

\* The array of the preload flag f: the first if set, the second otherwise.
ArrayOf(f) == IF f THEN 1 ELSE 2

\* The number of records of trampoline mappings in array a that equal v.
Placed(a, v) ==
    Cardinality({ i \in 1..Len(TrampolineRecs(a)) :
                    TrampolineRecs(a)[i] = v })

\* config.num_maps[i] counts the records of array i.
NumMapsCount == \A a \in 1..2 : config.num_maps[a] = Len(maps[a])

\* C11 as claimed: after a successful emission the records of every node of
\* a mapping's merged chain, one per bound, are in the array selected by the
\* preload flag of the head of the chain, and config.num_maps[i] is the
\* number of records in array i.
C11_HeadPlacement ==
    Succeeded =>
        /\ \A a \in 1..2 : \A t \in NodeBounds :
              Placed(a, RecordOf(t))
                = Cardinality({ u \in NodeBounds :
                      /\ ArrayOf(mappings[u[1]][1].preload) = a
                      /\ RecordOf(u) = RecordOf(t) })
        /\ NumMapsCount

\* C11 as amended: after a successful emission the records of every node of
\* a mapping's merged chain, one per bound, are in the array selected by the
\* preload flag of that node, whatever the flag of the head; the arrays hold
\* no other record but those of the refactors, which follow in the second
\* array, and config.num_maps[i] is the number of records in array i.
C11_NodePlacement ==
    Succeeded =>
        /\ \A a \in 1..2 : \A t \in NodeBounds :
              Placed(a, RecordOf(t))
                = Cardinality({ u \in NodeBounds :
                      /\ ArrayOf(mappings[u[1]][u[2]].preload) = a
                      /\ RecordOf(u) = RecordOf(t) })
        /\ \A a \in 1..2 : \A i \in 1..Len(TrampolineRecs(a)) :
              \E t \in NodeBounds : RecordOf(t) = TrampolineRecs(a)[i]
        /\ Len(maps[1]) = Len(TrampolineRecs(1))
        /\ Len(maps[2]) = Len(TrampolineRecs(2)) + Len(refactors)
        /\ NumMapsCount

\* A successful emission of a mapping whose chain has a node with another
\* preload flag than its head, with records in both arrays.
C11_Witness ==
    /\ Succeeded
    /\ \E t \in NodeBounds :
          mappings[t[1]][t[2]].preload # mappings[t[1]][1].preload
    /\ TrampolineRecs(1) # <<>>
    /\ TrampolineRecs(2) # <<>>
    /\ refactors # <<>>


---------------------------------------------------------------------------
(* C12: the file ranges of the refactors. *)

\* The file range of refactor r lies inside the file as it was before
\* refactoring.
InsideFile(r) == 0 <= r.original /\ r.original + r.size <= size_0

\* The file ranges of refactors r and q have no byte in common.
Disjoint(r, q) ==
    r.original + r.size <= q.original \/ q.original + q.size <= r.original

\* C12 as claimed: every refactor the planner has produced names a file
\* range inside the file as it was on entry, original + size being at most
\* the page-aligned size of the file, and the ranges of two refactors are
\* disjoint.
C12_RangesInsideDisjoint ==
    /\ \A j \in 1..Len(refactors) : InsideFile(refactors[j])
    /\ \A j, k \in 1..Len(refactors) :
          j # k => Disjoint(refactors[j], refactors[k])

\* The first half of C12 alone: no range runs past the end of the file.
C12_RangesInside == \A j \in 1..Len(refactors) : InsideFile(refactors[j])

\* The second half of C12 alone: no two ranges share a byte.
C12_RangesDisjoint ==
    \A j, k \in 1..Len(refactors) :
        j # k => Disjoint(refactors[j], refactors[k])

====
